---- MODULE Spec2Model ----
(***************************************************************************)
(* A model of the lidar_tracker package: the ObjectTracker (tracker.py),   *)
(* the TrajectoryStore (trajectory.py) and the TrackingEngine (engine.py)  *)
(* with the BackgroundModel and the clusterer it drives.                   *)
(*                                                                         *)
(* Coordinates and ranges are integers (millimetres on a small grid).  The *)
(* tracker's gate test  sqrt(dx*dx + dy*dy) <= max_match_distance_mm  is   *)
(* modelled on the squared distance, which orders the same way for an      *)
(* integer gate.                                                           *)
(***************************************************************************)
EXTENDS Integers, Sequences, FiniteSets, TLC

(* ------------------------------ bounds --------------------------------- *)
\* largest x coordinate of a cluster centroid fed to the tracker
MaxX == 2
\* largest y coordinate of a cluster centroid fed to the tracker
MaxY == 1
\* most clusters in one ObjectTracker.update call
MaxClusters == 2
\* most ObjectTracker.update calls in one run
MaxUpdates == 3

\* most TrajectoryStore.record calls in one run of the store
MaxRecords == 4
\* largest object_id passed to the TrajectoryStore
MaxStoreId == 2

\* most points in one scan handed to TrackingEngine.process_scan
MaxScanLen == 2
\* most TrackingEngine.process_scan calls in one run of the engine
MaxScans == 3

\* most BackgroundModel.update calls between two resets in one run of the model
MaxFed == 2

\* largest x and largest y, in mm, of a point handed to cluster_points, and the
\* most points in one call
MaxLine == 4
MaxRow == 1
MaxPoints == 7

\* configurations of ObjectTracker.__init__ explored
MatchDistChoices == {1}
MaxMissingChoices == {0, 1}
MinConfirmChoices == {1, 2, 3}
\* configurations of TrajectoryStore.__init__ explored (0 = unlimited)
MaxLengthChoices == {0, 1, 2}
\* configurations of BackgroundModel.__init__ explored (min_learning_frames)
MinFramesChoices == {1, 2}
\* values of foreground_threshold_mm that two BackgroundModels are compared under
ThresholdChoices == {1, 2, 3}

VARIABLES
    \* ObjectTracker
    max_match_dist,   \* self._max_match_dist
    max_missing,      \* self._max_missing
    min_confirm,      \* self._min_confirm
    next_id,          \* self._next_id
    tracks,           \* self._tracks
    \* the last ObjectTracker.update call
    clusters,         \* its argument
    objects,          \* the list it returned
    nupdates,         \* number of update calls so far
    \* history of the tracker
    issued,           \* track ids in the order they were assigned
    retired,          \* track ids removed as dead
    hits,             \* per held track id: updates that associated it with a cluster
    supplied,         \* per update call so far: the number of clusters it was given
    \* TrajectoryStore
    max_length,       \* self._max_length
    trajectories,     \* self._trajectories: object_id -> deque of TrajectoryPoint
    \* the last call on the store or the engine
    call,             \* its name and arguments
    ret,              \* what it returned
    nrecords,         \* number of record calls on the store so far
    \* history of the store
    recorded,         \* per stored id: every point recorded since the id was last removed
    \* BackgroundModel
    num_bins,         \* self._num_bins
    learning_rate,    \* self._learning_rate, as <<numerator, denominator>>
    threshold,        \* self._threshold, in mm
    min_frames,       \* self._min_frames
    background,       \* self._background, per bin, in 1/RangeScale mm; Inf before the first sample
    bin_counts,       \* self._bin_counts
    bg_frame_count,   \* self._frame_count of the BackgroundModel
    \* history of the background model
    fed,              \* the scans passed to update since construction or the last reset
    \* TrackingEngine
    cluster_eps,          \* self._cluster_eps, in mm
    cluster_min_samples,  \* self._cluster_min_samples
    max_cluster_radius,   \* self._max_cluster_radius, in mm
    frame_count,          \* self._frame_count
    nscans                \* number of process_scan calls so far

trackerVars == <<max_match_dist, max_missing, min_confirm, next_id, tracks,
                 clusters, objects, nupdates, issued, retired, hits, supplied>>

storeVars == <<max_length, trajectories, call, ret, nrecords, recorded>>

bgVars == <<num_bins, learning_rate, threshold, min_frames, background, bin_counts,
            bg_frame_count, fed>>

engineVars == <<cluster_eps, cluster_min_samples, max_cluster_radius, frame_count, nscans>>

vars == <<trackerVars, storeVars, bgVars, engineVars>>

(* ------------------------------ types.py ------------------------------- *)
CartesianPoint(px, py) == [x |-> px, y |-> py]

Cluster(cen, pts, rad) == [centroid |-> cen, points |-> pts, bounding_radius_mm |-> rad]

TrackedObject(t) ==
    [object_id |-> t.track_id, centroid |-> t.centroid, velocity |-> t.velocity,
     bounding_radius_mm |-> t.bounding_radius_mm, age |-> t.age, points |-> t.points]

TrajectoryPoint(px, py, f, ts) == [x |-> px, y |-> py, frame_number |-> f, timestamp |-> ts]

\* Python's None as an argument or a result
None == "None"

(* tests/test_tracker.py _make_cluster, with a single member point *)
MakeCluster(px, py) ==
    Cluster(CartesianPoint(px, py), <<CartesianPoint(px, py)>>, 0)

(* ------------------------------ helpers -------------------------------- *)
Range(s) == {s[i] : i \in 1..Len(s)}

RECURSIVE SetToSeq(_)
\* ascending enumeration of a finite set of integers (list(range(n)) filtered)
SetToSeq(S) ==
    IF S = {} THEN <<>>
    ELSE LET m == CHOOSE a \in S : \A b \in S : a <= b
         IN <<m>> \o SetToSeq(S \ {m})

(* ------------------------------ tracker.py ----------------------------- *)
\* update, lines 42-49: one-step constant-velocity prediction
Predict(ts) ==
    [i \in 1..Len(ts) |->
        CartesianPoint(ts[i].centroid.x + ts[i].velocity.x,
                       ts[i].centroid.y + ts[i].velocity.y)]

\* _assign, lines 130-132: dx*dx + dy*dy (d is its square root)
DistSq(p, q) == (p.x - q.x) * (p.x - q.x) + (p.y - q.y) * (p.y - q.y)

\* a gate that leaves out the boundary: d < self._max_match_dist
InGateStrict(p, q, gate) == DistSq(p, q) < gate * gate

\* _assign, line 133: d <= self._max_match_dist, i.e. cost[t, c] is finite
InGate(p, q, gate) == DistSq(p, q) <= gate * gate

\* _assign, lines 137-141: the finite (cost, t, c) triples
Pairs(predicted, cl, gate) ==
    {<<DistSq(predicted[t], cl[c].centroid), t, c>> :
        <<t, c>> \in {tc \in (1..Len(predicted)) \X (1..Len(cl)) :
                        InGate(predicted[tc[1]], cl[tc[2]].centroid, gate)}}

\* an ordering of the pairs that leaves the cost out
TripleLessNoCost(a, b) ==
    \/ a[2] < b[2]
    \/ a[2] = b[2] /\ a[3] < b[3]

\* tuple ordering used by pairs.sort()
TripleLess(a, b) ==
    \/ a[1] < b[1]
    \/ a[1] = b[1] /\ a[2] < b[2]
    \/ a[1] = b[1] /\ a[2] = b[2] /\ a[3] < b[3]

RECURSIVE SortPairs(_)
\* _assign, line 142
SortPairs(P) ==
    IF P = {} THEN <<>>
    ELSE LET m == CHOOSE a \in P : \A b \in P \ {a} : TripleLess(a, b)
         IN <<m>> \o SortPairs(P \ {m})

RECURSIVE Greedy(_, _, _, _)
\* _assign, lines 144-152: walk the sorted pairs, accept when both ends are free
Greedy(pairs, matches, used_tracks, used_clusters) ==
    IF pairs = <<>> THEN matches
    ELSE LET p == Head(pairs)
         IN IF p[2] \notin used_tracks /\ p[3] \notin used_clusters
            THEN Greedy(Tail(pairs), Append(matches, <<p[2], p[3]>>),
                        used_tracks \cup {p[2]}, used_clusters \cup {p[3]})
            ELSE Greedy(Tail(pairs), matches, used_tracks, used_clusters)

\* _assign, lines 112-156
Assign(predicted, cl, gate) ==
    IF Len(predicted) = 0
    THEN [matches |-> <<>>, unmatched_tracks |-> <<>>,
          unmatched_clusters |-> SetToSeq(1..Len(cl))]
    ELSE IF Len(cl) = 0
    THEN [matches |-> <<>>, unmatched_tracks |-> SetToSeq(1..Len(predicted)),
          unmatched_clusters |-> <<>>]
    ELSE LET m == Greedy(SortPairs(Pairs(predicted, cl, gate)), <<>>, {}, {})
         IN [matches |-> m,
             unmatched_tracks |->
                SetToSeq({t \in 1..Len(predicted) : \A i \in 1..Len(m) : m[i][1] # t}),
             unmatched_clusters |->
                SetToSeq({c \in 1..Len(cl) : \A i \in 1..Len(m) : m[i][2] # c})]

\* a match that moves the centroid before it takes the difference
ApplyMatchStale(t, c, minc) ==
    [t EXCEPT !.velocity = CartesianPoint(c.centroid.x - c.centroid.x,
                                          c.centroid.y - c.centroid.y),
              !.centroid = c.centroid,
              !.bounding_radius_mm = c.bounding_radius_mm,
              !.points = c.points,
              !.age = t.age + 1,
              !.missing_frames = 0,
              !.confirmed = IF t.age + 1 >= minc THEN TRUE ELSE t.confirmed]

\* update, lines 57-70: a track matched to cluster c
ApplyMatch(t, c, minc) ==
    [t EXCEPT !.velocity = CartesianPoint(c.centroid.x - t.centroid.x,
                                          c.centroid.y - t.centroid.y),
              !.centroid = c.centroid,
              !.bounding_radius_mm = c.bounding_radius_mm,
              !.points = c.points,
              !.age = t.age + 1,
              !.missing_frames = 0,
              !.confirmed = IF t.age + 1 >= minc THEN TRUE ELSE t.confirmed]

\* an unmatched track whose age is left alone
AgeUnmatchedNoAge(t) ==
    [t EXCEPT !.missing_frames = t.missing_frames + 1]

\* update, lines 73-75: a track no cluster was assigned to
AgeUnmatched(t) ==
    [t EXCEPT !.missing_frames = t.missing_frames + 1, !.age = t.age + 1]

\* a counter that is never advanced
SpawnIdStuck(nid, k) == nid

\* update, lines 82 and 91: the id of the k-th track created by a call that
\* started with self._next_id = nid (the counter advances after each append)
SpawnId(nid, k) == nid + k - 1

\* a new track that is never confirmed at birth
SpawnTrackTentative(id, c, minc) ==
    [track_id |-> id, centroid |-> c.centroid, velocity |-> CartesianPoint(0, 0),
     bounding_radius_mm |-> c.bounding_radius_mm, points |-> c.points,
     age |-> 1, missing_frames |-> 0, confirmed |-> FALSE]

\* update, lines 80-90: the track created for an unmatched cluster
SpawnTrack(id, c, minc) ==
    [track_id |-> id, centroid |-> c.centroid, velocity |-> CartesianPoint(0, 0),
     bounding_radius_mm |-> c.bounding_radius_mm, points |-> c.points,
     age |-> 1, missing_frames |-> 0, confirmed |-> (minc <= 1)]

\* retirement one miss early
IsAliveEarly(t, maxm) == t.missing_frames < maxm

\* retirement one miss late
IsAliveLate(t, maxm) == t.missing_frames <= maxm + 1

\* update, lines 94-96
IsAlive(t, maxm) == t.missing_frames <= maxm

\* an emit filter that forgets the confirmation
IsVisibleAny(t) == t.missing_frames = 0

\* update, lines 99-110
IsVisible(t) == t.confirmed /\ t.missing_frames = 0

Emit(ts) ==
    LET vis == SelectSeq(ts, IsVisible)
    IN [i \in 1..Len(vis) |-> TrackedObject(vis[i])]

\* the cluster index matched to track index t, 0 when unmatched
MatchOf(a, t) ==
    IF \E i \in 1..Len(a.matches) : a.matches[i][1] = t
    THEN a.matches[CHOOSE i \in 1..Len(a.matches) : a.matches[i][1] = t][2]
    ELSE 0

\* ObjectTracker.update, lines 39-110: the tracker after the call and its result
TrackerUpdate(ts, nid, cl, gate, maxm, minc) ==
    LET a == Assign(Predict(ts), cl, gate)
        updated == [i \in 1..Len(ts) |->
                       IF MatchOf(a, i) # 0
                       THEN ApplyMatch(ts[i], cl[MatchOf(a, i)], minc)
                       ELSE AgeUnmatched(ts[i])]
        uc == a.unmatched_clusters
        spawned == [k \in 1..Len(uc) |-> SpawnTrack(SpawnId(nid, k), cl[uc[k]], minc)]
        all == updated \o spawned
        alive == SelectSeq(all, LAMBDA t : IsAlive(t, maxm))
    IN [tracks |-> alive,
        next_id |-> SpawnId(nid, Len(uc) + 1),
        objects |-> Emit(alive),
        assign |-> a,
        created |-> [k \in 1..Len(spawned) |-> spawned[k].track_id],
        dead |-> {t.track_id : t \in {u \in Range(all) : ~IsAlive(u, maxm)}}]

(* ------------------------- tracker: state machine ---------------------- *)
Coords == {CartesianPoint(px, py) : px \in 0..MaxX, py \in 0..MaxY}

\* the arguments of update: up to MaxClusters clusters, in any order
ClusterInputs == UNION {[1..n -> {MakeCluster(p.x, p.y) : p \in Coords}] : n \in 0..MaxClusters}

\* ObjectTracker.__init__, lines 27-37
NewTracker ==
    /\ next_id = 1
    /\ tracks = <<>>
    /\ clusters = <<>>
    /\ objects = <<>>
    /\ nupdates = 0
    /\ issued = <<>>
    /\ retired = {}
    /\ hits = <<>>
    /\ supplied = <<>>

\* the history kept beside a tracker update r of the held tracks ts
HitsAfter(ts, r) ==
    LET held == {r.tracks[i].track_id : i \in 1..Len(r.tracks)}
        idx(id) == CHOOSE i \in 1..Len(ts) : ts[i].track_id = id
    IN [id \in held |->
          IF id \in Range(r.created) THEN 1
          ELSE IF MatchOf(r.assign, idx(id)) # 0 THEN hits[id] + 1
          ELSE hits[id]]

\* the tracker and its history after an update with clusters cl and outcome r
TrackerStep(cl, r) ==
    /\ tracks' = r.tracks
    /\ next_id' = r.next_id
    /\ objects' = r.objects
    /\ clusters' = cl
    /\ issued' = issued \o r.created
    /\ retired' = retired \cup r.dead
    /\ hits' = HitsAfter(tracks, r)
    /\ supplied' = Append(supplied, Len(cl))

\* ObjectTracker.update(cl)
Update ==
    /\ nupdates < MaxUpdates
    /\ \E cl \in ClusterInputs :
         \E r \in {TrackerUpdate(tracks, next_id, cl, max_match_dist, max_missing, min_confirm)} :
            TrackerStep(cl, r)
    /\ nupdates' = nupdates + 1
    /\ UNCHANGED <<max_match_dist, max_missing, min_confirm>>
    /\ UNCHANGED <<storeVars, bgVars, engineVars>>

(* ---------------------------- trajectory.py ---------------------------- *)
\* a deque that never drops
DequeAppendKeep(q, p, maxlen) == q \o <<p>>

\* a full deque that refuses the new point
DequeAppendDropNewest(q, p, maxlen) ==
    IF maxlen > 0 /\ Len(q) >= maxlen THEN q ELSE q \o <<p>>

\* deque.append on a deque made with maxlen (lines 29-34); 0 stands for maxlen=None
DequeAppend(q, p, maxlen) ==
    IF maxlen > 0 /\ Len(q) >= maxlen THEN Tail(q) \o <<p>> ELSE q \o <<p>>

\* TrajectoryStore.record, lines 19-34
StoreRecord(trajs, maxlen, id, p) ==
    [k \in DOMAIN trajs \cup {id} |->
        IF k = id
        THEN DequeAppend(IF id \in DOMAIN trajs THEN trajs[id] ELSE <<>>, p, maxlen)
        ELSE trajs[k]]

\* TrajectoryStore.get, lines 36-40
StoreGet(trajs, id) == IF id \notin DOMAIN trajs THEN <<>> ELSE trajs[id]

\* TrajectoryStore.get_all, lines 42-44
StoreGetAll(trajs) == [k \in DOMAIN trajs |-> trajs[k]]

\* a prune that takes the active ids for the inactive ones
ToRemoveActive(trajs, active_ids) == {k \in DOMAIN trajs : k \in active_ids}

\* prune_inactive, line 51
ToRemove(trajs, active_ids) == {k \in DOMAIN trajs : k \notin active_ids}

\* TrajectoryStore.prune_inactive, lines 46-54: the store after the call and its result
StorePrune(trajs, active_ids) ==
    [trajectories |-> [k \in DOMAIN trajs \ ToRemove(trajs, active_ids) |-> trajs[k]],
     pruned |-> [k \in ToRemove(trajs, active_ids) |-> trajs[k]]]

(* -------------------------- store: state machine ----------------------- *)
\* TrajectoryStore.__init__, lines 12-17
NewStore ==
    /\ trajectories = <<>>
    /\ call = [op |-> "init"]
    /\ ret = None
    /\ nrecords = 0
    /\ recorded = <<>>

StoreIds == 1..MaxStoreId

\* the points handed to record
RecordPoints == {TrajectoryPoint(px, 0, f, None) : px \in {0, 1}, f \in {0, 1}}

\* TrajectoryStore.record(id, x, y, frame_number, timestamp)
Record ==
    /\ nrecords < MaxRecords
    /\ \E id \in StoreIds, p \in RecordPoints :
          /\ trajectories' = StoreRecord(trajectories, max_length, id, p)
          /\ recorded' = StoreRecord(recorded, 0, id, p)
          /\ call' = [op |-> "record", object_id |-> id, point |-> p]
    /\ ret' = None
    /\ nrecords' = nrecords + 1
    /\ UNCHANGED <<max_length, trackerVars, bgVars, engineVars>>

\* TrajectoryStore.get(id)
Get ==
    /\ \E id \in StoreIds :
          /\ ret' = StoreGet(trajectories, id)
          /\ call' = [op |-> "get", object_id |-> id]
    /\ UNCHANGED <<max_length, trajectories, nrecords, recorded, trackerVars, bgVars, engineVars>>

\* the caller appends to the list that get returned; list(...) on line 40
\* built that list afresh, so the deque of the store is another object
ChangeResult ==
    /\ call.op = "get"
    /\ \E p \in RecordPoints : ret' = Append(ret, p)
    /\ call' = [op |-> "change_result", object_id |-> call.object_id]
    /\ UNCHANGED <<max_length, trajectories, nrecords, recorded, trackerVars, bgVars, engineVars>>

\* TrajectoryStore.get_all()
GetAll ==
    /\ ret' = StoreGetAll(trajectories)
    /\ call' = [op |-> "get_all"]
    /\ UNCHANGED <<max_length, trajectories, nrecords, recorded, trackerVars, bgVars, engineVars>>

\* TrajectoryStore.prune_inactive(active_ids)
PruneInactive ==
    /\ \E active_ids \in SUBSET (StoreIds \cup {MaxStoreId + 1}) :
          \E r \in {StorePrune(trajectories, active_ids)} :
             /\ trajectories' = r.trajectories
             /\ ret' = r.pruned
             /\ recorded' = [k \in DOMAIN r.trajectories |-> recorded[k]]
             /\ call' = [op |-> "prune_inactive", active_ids |-> active_ids]
    /\ UNCHANGED <<max_length, nrecords, trackerVars, bgVars, engineVars>>

(* ---------------------------- background.py ---------------------------- *)
\* np.inf in self._background (line 29): no sample seen in the bin
Inf == -1

RECURSIVE Pow2(_)
Pow2(n) == IF n = 0 THEN 1 ELSE 2 * Pow2(n - 1)

\* ranges kept by the BackgroundModel are counted in 1/RangeScale mm, so that
\* every moving average a run can form with a rate of 1/2 is an integer
RangeScale == Pow2(MaxScans * MaxScanLen)

PolarPoint(a, d) == [angle_deg |-> a, distance_mm |-> d]

\* _angle_to_bin, lines 33-34, for angles >= 0: int(angle / (360 / bins)) % bins
AngleToBin(angle_deg, bins) == ((angle_deg * bins) \div 360) % bins

\* an update without the guard of line 45: every sample moves the average
BgUpdatePointUnguarded(m, p, bins, rate, thr) ==
    LET b == AngleToBin(p.angle_deg, bins)
        d == p.distance_mm * RangeScale
    IN [background |->
          IF m.bin_counts[b] = 0
          THEN [m.background EXCEPT ![b] = d]
          ELSE [m.background EXCEPT
                   ![b] = m.background[b] + (rate[1] * (d - m.background[b])) \div rate[2]],
        bin_counts |-> [m.bin_counts EXCEPT ![b] = m.bin_counts[b] + 1]]

\* update, lines 39-49: one point folded into [background, bin_counts]
BgUpdatePoint(m, p, bins, rate, thr) ==
    LET b == AngleToBin(p.angle_deg, bins)
        d == p.distance_mm * RangeScale
    IN [background |->
          IF m.bin_counts[b] = 0
          THEN [m.background EXCEPT ![b] = d]
          ELSE IF d >= m.background[b] - thr * RangeScale
               THEN [m.background EXCEPT
                        ![b] = m.background[b] + (rate[1] * (d - m.background[b])) \div rate[2]]
               ELSE m.background,
        bin_counts |-> [m.bin_counts EXCEPT ![b] = m.bin_counts[b] + 1]]

RECURSIVE BgUpdate(_, _, _, _, _)
\* update, lines 36-50: the points of a scan folded in, in order
BgUpdate(m, points, bins, rate, thr) ==
    IF points = <<>> THEN m
    ELSE BgUpdate(BgUpdatePoint(m, Head(points), bins, rate, thr), Tail(points),
                  bins, rate, thr)

\* a model that is ready one frame late
IsReadyLate(frames, minf) == frames > minf

\* is_ready, lines 66-68
IsReady(frames, minf) == frames >= minf

\* a comparison turned around: foreground is what is not in front by the threshold
IsForegroundFlipped(bg, p, bins, thr) ==
    LET b == AngleToBin(p.angle_deg, bins)
    IN bg[b] # Inf /\ bg[b] - p.distance_mm * RangeScale < thr * RangeScale

\* classify, lines 58-63: p is foreground against the background array bg
IsForeground(bg, p, bins, thr) ==
    LET b == AngleToBin(p.angle_deg, bins)
    IN bg[b] # Inf /\ bg[b] - p.distance_mm * RangeScale > thr * RangeScale

\* a classify that does not wait for the model to be ready
ClassifyUnready(bg, frames, points, bins, thr, minf) ==
    SelectSeq(points, LAMBDA p : IsForeground(bg, p, bins, thr))

\* classify, lines 52-64
Classify(bg, frames, points, bins, thr, minf) ==
    IF ~IsReady(frames, minf) THEN <<>>
    ELSE SelectSeq(points, LAMBDA p : IsForeground(bg, p, bins, thr))

\* np.full(angle_bins, np.inf), line 29 and line 72
EmptyBackground(bins) == [b \in 0..(bins - 1) |-> Inf]

\* np.zeros(angle_bins, dtype=int), line 30 and line 73
ZeroCounts(bins) == [b \in 0..(bins - 1) |-> 0]

\* BackgroundModel.__init__, lines 29-31
NewBackground ==
    /\ background = EmptyBackground(num_bins)
    /\ bin_counts = ZeroCounts(num_bins)
    /\ bg_frame_count = 0
    /\ fed = <<>>

\* a reset that forgets to clear the learning frame counter
BgResetKeepFrames ==
    /\ background' = EmptyBackground(num_bins)
    /\ bin_counts' = ZeroCounts(num_bins)
    /\ bg_frame_count' = bg_frame_count
    /\ fed' = <<>>

\* BackgroundModel.reset, lines 70-74
BgReset ==
    /\ background' = EmptyBackground(num_bins)
    /\ bin_counts' = ZeroCounts(num_bins)
    /\ bg_frame_count' = 0
    /\ fed' = <<>>

(* ------------------------ background: state machine ------------------- *)
\* the samples a scan is made of: a wall at 3 mm, something at 1 mm in front
\* of it, and an invalid reading, at 0 and at 90 degrees
ScanPoints == {PolarPoint(a, d) : a \in {0, 90}, d \in {0, 1, 3}}

\* the scans handed to update, classify and process_scan
ScanInputs == UNION {[1..n -> ScanPoints] : n \in 0..MaxScanLen}

\* BackgroundModel.update(points)
BgUpdateCall ==
    /\ Len(fed) < MaxFed
    /\ \E points \in ScanInputs :
       \E m \in {BgUpdate([background |-> background, bin_counts |-> bin_counts], points,
                          num_bins, learning_rate, threshold)} :
          /\ background' = m.background
          /\ bin_counts' = m.bin_counts
          /\ fed' = Append(fed, points)
          /\ call' = [op |-> "update", points |-> points]
    /\ bg_frame_count' = bg_frame_count + 1
    /\ ret' = None
    /\ UNCHANGED <<num_bins, learning_rate, threshold, min_frames>>
    /\ UNCHANGED <<max_length, trajectories, nrecords, recorded, trackerVars, engineVars>>

\* BackgroundModel.classify(points)
BgClassifyCall ==
    /\ \E points \in ScanInputs :
          /\ ret' = Classify(background, bg_frame_count, points, num_bins, threshold,
                             min_frames)
          /\ call' = [op |-> "classify", points |-> points]
    /\ UNCHANGED <<max_length, trajectories, nrecords, recorded, trackerVars, bgVars,
                   engineVars>>

\* BackgroundModel.is_ready()
BgIsReadyCall ==
    /\ ret' = IsReady(bg_frame_count, min_frames)
    /\ call' = [op |-> "is_ready"]
    /\ UNCHANGED <<max_length, trajectories, nrecords, recorded, trackerVars, bgVars,
                   engineVars>>

\* BackgroundModel.reset()
BgResetCall ==
    /\ BgReset
    /\ call' = [op |-> "reset"]
    /\ ret' = None
    /\ UNCHANGED <<num_bins, learning_rate, threshold, min_frames>>
    /\ UNCHANGED <<max_length, trajectories, nrecords, recorded, trackerVars, engineVars>>

(* ------------------------------- _math.py ------------------------------ *)
RECURSIVE Factorial(_)
Factorial(n) == IF n = 0 THEN 1 ELSE n * Factorial(n - 1)

\* cartesian coordinates of the engine are counted in 1/CoordScale mm, so that
\* the mean of up to MaxScanLen points is an integer
CoordScale == Factorial(MaxScanLen)

\* cos and sin of a multiple of 90 degrees
Cos90(angle_deg) ==
    IF angle_deg % 360 = 0 THEN 1 ELSE IF angle_deg % 360 = 180 THEN -1 ELSE 0

Sin90(angle_deg) ==
    IF angle_deg % 360 = 90 THEN 1 ELSE IF angle_deg % 360 = 270 THEN -1 ELSE 0

\* polar_points_to_cartesian, lines 24-31
PolarPointsToCartesian(points) ==
    [i \in 1..Len(points) |->
        CartesianPoint(points[i].distance_mm * Cos90(points[i].angle_deg) * CoordScale,
                       points[i].distance_mm * Sin90(points[i].angle_deg) * CoordScale)]

(* ----------------------------- clustering.py --------------------------- *)
\* _grid_dbscan lines 68-69 and _range_query lines 118-119: the cell of a point
CellOf(p, cell_size) == <<p.x \div cell_size, p.y \div cell_size>>

\* _range_query, lines 122-123: the order in which the 3 x 3 cells are visited
NeighbourCells ==
    <<<<-1, -1>>, <<-1, 0>>, <<-1, 1>>, <<0, -1>>, <<0, 0>>, <<0, 1>>,
      <<1, -1>>, <<1, 0>>, <<1, 1>>>>

\* the indices 1..n in ascending order
Indices(n) == [i \in 1..n |-> i]

RECURSIVE Concat(_)
\* the concatenation of a sequence of sequences
Concat(ss) == IF ss = <<>> THEN <<>> ELSE Head(ss) \o Concat(Tail(ss))

\* a query that looks into the cell of the point only
RangeQueryOwnCell(xy, idx, eps) ==
    SelectSeq(Indices(Len(xy)),
              LAMBDA j : /\ CellOf(xy[j], eps) = CellOf(xy[idx], eps)
                         /\ DistSq(xy[j], xy[idx]) <= eps * eps)

\* _range_query, lines 109-128 (the grid index of lines 65-70 built in)
RangeQuery(xy, idx, eps) ==
    LET c == CellOf(xy[idx], eps)
        inCell(k) ==
            SelectSeq(Indices(Len(xy)),
                      LAMBDA j : /\ CellOf(xy[j], eps) =
                                      <<c[1] + NeighbourCells[k][1], c[2] + NeighbourCells[k][2]>>
                                 /\ DistSq(xy[j], xy[idx]) <= eps * eps)
    IN Concat([k \in 1..9 |-> inCell(k)])

RECURSIVE Expand(_, _, _, _, _, _, _)
\* _grid_dbscan, lines 87-102: the walk over the growing seed list
Expand(xy, eps, min_samples, labels, seed_set, j, cluster_id) ==
    IF j > Len(seed_set) THEN labels
    ELSE LET q == seed_set[j]
         IN IF labels[q] = -2
            THEN Expand(xy, eps, min_samples, [labels EXCEPT ![q] = cluster_id],
                        seed_set, j + 1, cluster_id)
            ELSE IF labels[q] # -1
            THEN Expand(xy, eps, min_samples, labels, seed_set, j + 1, cluster_id)
            ELSE LET q_neighbors == RangeQuery(xy, q, eps)
                 IN Expand(xy, eps, min_samples, [labels EXCEPT ![q] = cluster_id],
                           IF Len(q_neighbors) >= min_samples
                           THEN seed_set \o q_neighbors ELSE seed_set,
                           j + 1, cluster_id)

RECURSIVE Dbscan(_, _, _, _, _, _)
\* _grid_dbscan, lines 76-104: the loop over the points from index i on
Dbscan(xy, eps, min_samples, labels, i, cluster_id) ==
    IF i > Len(xy) THEN labels
    ELSE IF labels[i] # -1
    THEN Dbscan(xy, eps, min_samples, labels, i + 1, cluster_id)
    ELSE LET neighbors == RangeQuery(xy, i, eps)
         IN IF Len(neighbors) < min_samples
            THEN Dbscan(xy, eps, min_samples, labels, i + 1, cluster_id)
            ELSE Dbscan(xy, eps, min_samples,
                        Expand(xy, eps, min_samples, [labels EXCEPT ![i] = cluster_id],
                               neighbors, 1, cluster_id),
                        i + 1, cluster_id + 1)

\* a labelling that takes a point for a core point one neighbour early
GridDbscanLoose(xy, eps, min_samples) ==
    Dbscan(xy, eps, min_samples - 1, [i \in 1..Len(xy) |-> -1], 1, 0)

\* _grid_dbscan, lines 56-106: labels per point, -1 for noise
GridDbscan(xy, eps, min_samples) ==
    Dbscan(xy, eps, min_samples, [i \in 1..Len(xy) |-> -1], 1, 0)

RECURSIVE SumSeq(_)
SumSeq(s) == IF s = <<>> THEN 0 ELSE Head(s) + SumSeq(Tail(s))

\* the largest element of a non-empty set of integers
MaxOf(S) == CHOOSE a \in S : \A b \in S : b <= a

\* cluster_points, lines 29-30: the points that carry the label, in input order
MembersOf(points, labels, label) ==
    LET idx == SelectSeq(Indices(Len(points)), LAMBDA i : labels[i] = label)
    IN [k \in 1..Len(idx) |-> points[idx[k]]]

\* the smallest element of a non-empty set of integers
MinOf(S) == CHOOSE a \in S : \A b \in S : a <= b

\* a cluster centred on the middle of its bounding box
MakeClusterOfBox(members, max_radius) ==
    LET n == Len(members)
        xs == {members[i].x : i \in 1..n}
        ys == {members[i].y : i \in 1..n}
        centroid == CartesianPoint((MinOf(xs) + MaxOf(xs)) \div 2,
                                   (MinOf(ys) + MaxOf(ys)) \div 2)
        radius_sq == MaxOf({DistSq(members[i], centroid) : i \in 1..n})
    IN IF radius_sq > max_radius * max_radius THEN <<>>
       ELSE <<Cluster(centroid, members, radius_sq)>>

\* a cluster that is emitted whatever its radius
MakeClusterOfAny(members, max_radius) ==
    LET n == Len(members)
        centroid == CartesianPoint(SumSeq([i \in 1..n |-> members[i].x]) \div n,
                                   SumSeq([i \in 1..n |-> members[i].y]) \div n)
        radius_sq == MaxOf({DistSq(members[i], centroid) : i \in 1..n})
    IN <<Cluster(centroid, members, radius_sq)>>

\* cluster_points, lines 29-51: the cluster of the member points, or <<>> when
\* its radius is over the limit.  bounding_radius_mm holds the SQUARE of the
\* radius, in coordinate units, which orders as the radius does.
MakeClusterOf(members, max_radius) ==
    LET n == Len(members)
        centroid == CartesianPoint(SumSeq([i \in 1..n |-> members[i].x]) \div n,
                                   SumSeq([i \in 1..n |-> members[i].y]) \div n)
        radius_sq == MaxOf({DistSq(members[i], centroid) : i \in 1..n})
    IN IF radius_sq > max_radius * max_radius THEN <<>>
       ELSE <<Cluster(centroid, members, radius_sq)>>

\* cluster_points, lines 10-53; eps and max_radius in coordinate units
ClusterPoints(points, eps, min_samples, max_radius) ==
    IF Len(points) < min_samples THEN <<>>
    ELSE LET labels == GridDbscan(points, eps, min_samples)
             top == MaxOf(Range(labels) \cup {-1})
         IN Concat([l \in 1..(top + 1) |->
                      MakeClusterOf(MembersOf(points, labels, l - 1), max_radius)])

(* ------------------------ clustering: state machine -------------------- *)
RECURSIVE Gcd(_, _)
Gcd(a, b) == IF b = 0 THEN a ELSE Gcd(b, a % b)

RECURSIVE LcmUpTo(_)
\* the least common multiple of 1..n
LcmUpTo(n) == IF n <= 1 THEN 1 ELSE (LcmUpTo(n - 1) * n) \div Gcd(LcmUpTo(n - 1), n)

\* the points handed to cluster_points are counted in 1/ClusterScale mm, so that
\* the mean of up to MaxPoints of them is an integer
ClusterScale == LcmUpTo(MaxPoints)

\* the points of the grid, column by column
GridSize == (MaxLine + 1) * (MaxRow + 1)

GridPoint(k) ==
    CartesianPoint(((k - 1) \div (MaxRow + 1)) * ClusterScale,
                   ((k - 1) % (MaxRow + 1)) * ClusterScale)

\* the grid points numbered in P as a list, in ascending or in descending order
PointList(P, descending) ==
    LET idx == SelectSeq(Indices(GridSize), LAMBDA i : i \in P)
    IN [k \in 1..Len(idx) |->
          GridPoint(IF descending THEN idx[Len(idx) - k + 1] ELSE idx[k])]

\* where the corner of the grid is put, in mm: at the origin, or so that the
\* grid has points of negative x and y
Origins == {<<0, 0>>, <<-3, -1>>}

\* the points moved by o mm
Shifted(points, o) ==
    [k \in 1..Len(points) |->
       CartesianPoint(points[k].x + o[1] * ClusterScale, points[k].y + o[2] * ClusterScale)]

\* arguments of cluster_points explored: eps_mm, min_samples, max_cluster_radius_mm
ClusterConfigs ==
    {[eps_mm |-> 1, min_samples |-> 2, max_cluster_radius_mm |-> 1],
     [eps_mm |-> 1, min_samples |-> 4, max_cluster_radius_mm |-> 1],
     [eps_mm |-> 2, min_samples |-> 3, max_cluster_radius_mm |-> 2],
     [eps_mm |-> 1, min_samples |-> 3, max_cluster_radius_mm |-> 2]}

\* cluster_points(points, eps_mm, min_samples, max_cluster_radius_mm)
ClusterCall ==
    /\ call.op = "input"
    /\ ret' = ClusterPoints(call.points, call.eps_mm * ClusterScale, call.min_samples,
                            call.max_cluster_radius_mm * ClusterScale)
    /\ call' = [call EXCEPT !.op = "cluster_points"]
    /\ UNCHANGED <<max_length, trajectories, nrecords, recorded, trackerVars, bgVars,
                   engineVars>>

(* ------------------------------- engine.py ----------------------------- *)
\* a frame numbered after the counter was advanced
TrackingFrameNext(f, objs, ts) ==
    [frame_number |-> f + 1, objects |-> objs, timestamp |-> ts]

\* the TrackingFrame built by process_scan, lines 110-114
TrackingFrame(f, objs, ts) == [frame_number |-> f, objects |-> objs, timestamp |-> ts]

\* a filter that lets a range of 0 through
FilterNonNegative(points) == SelectSeq(points, LAMBDA p : p.distance_mm >= 0)

\* process_scan, line 80
FilterPositive(points) == SelectSeq(points, LAMBDA p : p.distance_mm > 0)

RECURSIVE RecordEach(_, _, _, _, _)
\* process_scan, lines 101-108: the loop of record calls
RecordEach(trajs, objs, frame, ts, maxlen) ==
    IF objs = <<>> THEN trajs
    ELSE LET o == Head(objs)
         IN RecordEach(StoreRecord(trajs, maxlen, o.object_id,
                                   TrajectoryPoint(o.centroid.x, o.centroid.y, frame, ts)),
                       Tail(objs), frame, ts, maxlen)

\* a recording step that also prunes the ids that are not in the frame
RecordAllPruned(trajs, objs, frame, ts, maxlen) ==
    StorePrune(RecordEach(trajs, objs, frame, ts, maxlen),
               {objs[i].object_id : i \in 1..Len(objs)}).trajectories

\* a recording step that stamps the points with the number of the next frame
RecordAllNextFrame(trajs, objs, frame, ts, maxlen) ==
    RecordEach(trajs, objs, frame + 1, ts, maxlen)

\* process_scan, lines 100-108: the trajectories after the frame is recorded
RecordAll(trajs, objs, frame, ts, maxlen) == RecordEach(trajs, objs, frame, ts, maxlen)

(* -------------------------- engine: state machine ---------------------- *)
\* configurations of TrackingEngine.__init__ explored: min_learning_frames,
\* cluster_eps_mm, cluster_min_samples, max_missing_frames, min_confirm_frames,
\* max_trajectory_length
EngineConfigs ==
    {[min_learning_frames |-> 1, cluster_eps_mm |-> 1, cluster_min_samples |-> 1,
      max_missing_frames |-> 0, min_confirm_frames |-> 1, max_trajectory_length |-> 0],
     [min_learning_frames |-> 2, cluster_eps_mm |-> 2, cluster_min_samples |-> 2,
      max_missing_frames |-> 1, min_confirm_frames |-> 1, max_trajectory_length |-> 1],
     [min_learning_frames |-> 2, cluster_eps_mm |-> 1, cluster_min_samples |-> 1,
      max_missing_frames |-> 1, min_confirm_frames |-> 2, max_trajectory_length |-> 2]}

\* TrackingEngine.__init__, lines 23-58
EngineInit ==
    \E cfg \in EngineConfigs :
       /\ num_bins = 4
       /\ learning_rate = <<1, 2>>
       /\ threshold = 1
       /\ min_frames = cfg.min_learning_frames
       /\ NewBackground
       /\ cluster_eps = cfg.cluster_eps_mm
       /\ cluster_min_samples = cfg.cluster_min_samples
       /\ max_cluster_radius = 2
       /\ max_match_dist = 2 * CoordScale
       /\ max_missing = cfg.max_missing_frames
       /\ min_confirm = cfg.min_confirm_frames
       /\ NewTracker
       /\ max_length = cfg.max_trajectory_length
       /\ NewStore
       /\ frame_count = 0
       /\ nscans = 0

\* TrackingEngine.process_scan(points, timestamp), lines 60-116
ProcessScan ==
    /\ nscans < MaxScans
    /\ \E points \in ScanInputs, timestamp \in {None} :
       \E polar \in {FilterPositive(points)} :
       \E m \in {BgUpdate([background |-> background, bin_counts |-> bin_counts], polar,
                          num_bins, learning_rate, threshold)} :
       \E foreground \in {Classify(m.background, bg_frame_count + 1, polar,
                                   num_bins, threshold, min_frames)} :
       \E cl \in {ClusterPoints(PolarPointsToCartesian(foreground),
                                cluster_eps * CoordScale, cluster_min_samples,
                                max_cluster_radius * CoordScale)} :
       \E r \in {TrackerUpdate(tracks, next_id, cl, max_match_dist, max_missing, min_confirm)} :
          /\ background' = m.background
          /\ bin_counts' = m.bin_counts
          /\ bg_frame_count' = bg_frame_count + 1
          /\ fed' = Append(fed, polar)
          /\ TrackerStep(cl, r)
          /\ trajectories' = RecordAll(trajectories, r.objects, frame_count, timestamp, max_length)
          /\ recorded' = RecordAll(recorded, r.objects, frame_count, timestamp, 0)
          /\ ret' = TrackingFrame(frame_count, r.objects, timestamp)
          /\ call' = [op |-> "process_scan", points |-> points, timestamp |-> timestamp]
    /\ frame_count' = frame_count + 1
    /\ nscans' = nscans + 1
    /\ nupdates' = nupdates + 1
    /\ UNCHANGED <<max_match_dist, max_missing, min_confirm, max_length, nrecords,
                   num_bins, learning_rate, threshold, min_frames,
                   cluster_eps, cluster_min_samples, max_cluster_radius>>

\* TrackingEngine.get_trajectory(object_id), lines 127-129
GetTrajectory ==
    /\ \E id \in StoreIds :
          /\ ret' = StoreGet(trajectories, id)
          /\ call' = [op |-> "get_trajectory", object_id |-> id]
    /\ UNCHANGED <<max_length, trajectories, nrecords, recorded, trackerVars, bgVars, engineVars>>

\* TrackingEngine.get_all_trajectories(), lines 131-133
GetAllTrajectories ==
    /\ ret' = StoreGetAll(trajectories)
    /\ call' = [op |-> "get_all_trajectories"]
    /\ UNCHANGED <<max_length, trajectories, nrecords, recorded, trackerVars, bgVars, engineVars>>

\* TrackingEngine.reset_background(), lines 135-137
ResetBackground ==
    /\ BgReset
    /\ call' = [op |-> "reset_background"]
    /\ ret' = None
    /\ UNCHANGED <<num_bins, learning_rate, threshold, min_frames>>
    /\ UNCHANGED <<max_length, trajectories, nrecords, recorded, trackerVars, engineVars>>

\* a reset that hands the id counter of the old tracker to the new one
ResetKeepIds ==
    /\ BgReset
    /\ next_id' = next_id
    /\ tracks' = <<>>
    /\ clusters' = <<>>
    /\ objects' = <<>>
    /\ nupdates' = 0
    /\ issued' = <<>>
    /\ retired' = {}
    /\ hits' = <<>>
    /\ supplied' = <<>>
    /\ trajectories' = <<>>
    /\ recorded' = <<>>
    /\ frame_count' = 0
    /\ call' = [op |-> "reset"]
    /\ ret' = None
    /\ UNCHANGED <<num_bins, learning_rate, threshold, min_frames>>
    /\ UNCHANGED <<max_match_dist, max_missing, min_confirm, max_length, nrecords>>
    /\ UNCHANGED <<cluster_eps, cluster_min_samples, max_cluster_radius, nscans>>

\* TrackingEngine.reset(), lines 139-150
Reset ==
    /\ BgReset
    /\ next_id' = 1
    /\ tracks' = <<>>
    /\ clusters' = <<>>
    /\ objects' = <<>>
    /\ nupdates' = 0
    /\ issued' = <<>>
    /\ retired' = {}
    /\ hits' = <<>>
    /\ supplied' = <<>>
    /\ trajectories' = <<>>
    /\ recorded' = <<>>
    /\ frame_count' = 0
    /\ call' = [op |-> "reset"]
    /\ ret' = None
    /\ UNCHANGED <<num_bins, learning_rate, threshold, min_frames>>
    /\ UNCHANGED <<max_match_dist, max_missing, min_confirm, max_length, nrecords>>
    /\ UNCHANGED <<cluster_eps, cluster_min_samples, max_cluster_radius, nscans>>

(* --------------------------- specifications ---------------------------- *)
\* a background model and an engine that are never called
IdleEngine ==
    /\ num_bins = 1
    /\ learning_rate = <<1, 2>>
    /\ threshold = 1
    /\ min_frames = 1
    /\ NewBackground
    /\ cluster_eps = 1
    /\ cluster_min_samples = 1
    /\ max_cluster_radius = 1
    /\ frame_count = 0
    /\ nscans = 0

\* an ObjectTracker on its own
TrackerInit ==
    /\ max_match_dist \in MatchDistChoices
    /\ max_missing \in MaxMissingChoices
    /\ min_confirm \in MinConfirmChoices
    /\ NewTracker
    /\ max_length = 0
    /\ NewStore
    /\ IdleEngine

TrackerNext == Update

TrackerSpec == TrackerInit /\ [][TrackerNext]_vars

\* a TrajectoryStore on its own
StoreInit ==
    /\ max_length \in MaxLengthChoices
    /\ NewStore
    /\ max_match_dist = 1
    /\ max_missing = 0
    /\ min_confirm = 1
    /\ NewTracker
    /\ IdleEngine

StoreNext == Record \/ Get \/ ChangeResult \/ GetAll \/ PruneInactive

StoreSpec == StoreInit /\ [][StoreNext]_vars

\* a BackgroundModel on its own
BackgroundInit ==
    /\ num_bins = 4
    /\ learning_rate = <<1, 2>>
    /\ threshold = 1
    /\ min_frames \in MinFramesChoices
    /\ NewBackground
    /\ max_match_dist = 1
    /\ max_missing = 0
    /\ min_confirm = 1
    /\ NewTracker
    /\ max_length = 0
    /\ NewStore
    /\ cluster_eps = 1
    /\ cluster_min_samples = 1
    /\ max_cluster_radius = 1
    /\ frame_count = 0
    /\ nscans = 0

BackgroundNext == BgUpdateCall \/ BgClassifyCall \/ BgIsReadyCall \/ BgResetCall

BackgroundSpec == BackgroundInit /\ [][BackgroundNext]_vars

\* cluster_points on its own: the arguments are drawn first, then it is called
ClusterInit ==
    /\ \E P \in SUBSET (1..GridSize), descending \in BOOLEAN, cfg \in ClusterConfigs,
          o \in Origins :
          /\ Cardinality(P) <= MaxPoints
          /\ call = [op |-> "input", points |-> Shifted(PointList(P, descending), o),
                     eps_mm |-> cfg.eps_mm, min_samples |-> cfg.min_samples,
                     max_cluster_radius_mm |-> cfg.max_cluster_radius_mm]
    /\ ret = None
    /\ max_length = 0
    /\ trajectories = <<>>
    /\ nrecords = 0
    /\ recorded = <<>>
    /\ max_match_dist = 1
    /\ max_missing = 0
    /\ min_confirm = 1
    /\ NewTracker
    /\ IdleEngine

ClusterNext == ClusterCall

ClusterSpec == ClusterInit /\ [][ClusterNext]_vars

\* a TrackingEngine
EngineNext ==
    ProcessScan \/ GetTrajectory \/ GetAllTrajectories \/ ResetBackground \/ Reset

EngineSpec == EngineInit /\ [][EngineNext]_vars

(* ---------------------- claims about ObjectTracker --------------------- *)
\* an update call happened in this step
UpdateStep == nupdates' = nupdates + 1

TrackIds(ts) == {ts[i].track_id : i \in 1..Len(ts)}

ObjectIds(os) == {os[i].object_id : i \in 1..Len(os)}

\* the index in ts of the track with this id
IndexOfId(ts, id) == CHOOSE i \in 1..Len(ts) : ts[i].track_id = id

\* the assignment the step's update computed, from the tracks before the call
\* and the clusters it was given
StepAssign == Assign(Predict(tracks), clusters', max_match_dist)

\* C1: every track id is a positive integer strictly greater than every id
\* assigned before it, so no id is ever given to two tracks, also not after the
\* earlier track was retired; the held tracks carry distinct issued ids.
Thm_C1 ==
    /\ \A i \in 1..Len(issued) : issued[i] \in Nat /\ issued[i] >= 1
    /\ \A i \in 1..Len(issued) : \A j \in 1..Len(issued) : i < j => issued[i] < issued[j]
    /\ \A i \in 1..Len(tracks) : \A j \in 1..Len(tracks) :
          i # j => tracks[i].track_id # tracks[j].track_id
    /\ TrackIds(tracks) \subseteq Range(issued)
    /\ ObjectIds(objects) \subseteq TrackIds(tracks)
    /\ retired \cap TrackIds(tracks) = {}

\* C1 witness: three ids were issued, one of them went to a track that has been
\* retired, and a track created later is held.
Wit_C1 ==
    /\ Len(issued) >= 3
    /\ retired # {}
    /\ \E i \in 1..Len(tracks) : \E d \in retired : tracks[i].track_id > d

\* C2 as stated: with min_confirm_frames <= 1, when an update is given a single
\* cluster within max_match_distance_mm of the centroid of an object the
\* previous update emitted, it emits that cluster under the id of such an object.
Orig_C2 ==
    [][(UpdateStep /\ min_confirm <= 1 /\ Len(clusters') = 1) =>
         LET near == {i \in 1..Len(objects) :
                        InGate(objects[i].centroid, clusters'[1].centroid, max_match_dist)}
         IN near # {} =>
               /\ Len(objects') = 1
               /\ \E i \in near : objects'[1].object_id = objects[i].object_id]_vars

\* track index ti has the least (cost, index) among the held tracks for cluster c
NearestTo(ti, c) ==
    LET pred == Predict(tracks)
    IN \A u \in 1..Len(tracks) :
          u # ti =>
             \/ DistSq(pred[ti], c.centroid) < DistSq(pred[u], c.centroid)
             \/ DistSq(pred[ti], c.centroid) = DistSq(pred[u], c.centroid) /\ ti < u

\* C2 amended: with min_confirm_frames <= 1, an object emitted by one update
\* keeps its id in the next update when that update is given a single cluster
\* within max_match_distance_mm of the track's predicted position (centroid
\* plus velocity) and no other held track's predicted position is nearer to the
\* cluster, or equally near and earlier in the tracker's list.
Thm_C2 ==
    [][(UpdateStep /\ min_confirm <= 1 /\ Len(clusters') = 1) =>
         \A i \in 1..Len(objects) :
            LET ti == IndexOfId(tracks, objects[i].object_id)
                c == clusters'[1]
            IN (/\ DistSq(Predict(tracks)[ti], c.centroid) <= max_match_dist * max_match_dist
                /\ NearestTo(ti, c)) =>
                   /\ Len(objects') = 1
                   /\ objects'[1].object_id = objects[i].object_id
                   /\ objects'[1].centroid = c.centroid]_vars

\* C2 witness: a tracker with min_confirm_frames <= 1 that retires a track on
\* its first miss was just given a single cluster and emitted for it a moving
\* object that the two updates before had emitted already.
Wit_C2 ==
    /\ min_confirm <= 1
    /\ max_missing = 0
    /\ Len(clusters) = 1
    /\ Len(objects) = 1
    /\ objects[1].age >= 3
    /\ objects[1].velocity # CartesianPoint(0, 0)
    /\ objects[1].centroid = clusters[1].centroid

\* assignment a matched track index ti of the tracks before the step
WasMatched(a, ti) == MatchOf(a, ti) # 0

\* the track of tracks' that carries the id of pre-step track ti is held
HeldAfter(ti) == tracks[ti].track_id \in TrackIds(tracks')

\* the track of tracks' that carries the id of pre-step track ti
After(ti) == tracks'[IndexOfId(tracks', tracks[ti].track_id)]

\* C3 as stated: a track unmatched in at most max_missing_frames consecutive
\* updates is still held and, when a cluster falls within the gate of its
\* prediction, continues with the same id; a track unmatched once more is
\* removed and its id never appears again.
Orig_C3 ==
    [][UpdateStep => \A a \in {StepAssign} :
         /\ \A ti \in 1..Len(tracks) :
               /\ tracks[ti].missing_frames <= max_missing
               /\ (\E k \in 1..Len(clusters') :
                      InGate(Predict(tracks)[ti], clusters'[k].centroid, max_match_dist))
                    => HeldAfter(ti)
               /\ (~WasMatched(a, ti) /\ tracks[ti].missing_frames + 1 > max_missing)
                    => ~HeldAfter(ti)
         /\ retired \cap (TrackIds(tracks') \cup ObjectIds(objects')) = {}]_vars

\* C3 amended: a track is retired exactly when its missing_frames exceeds
\* max_missing_frames: a track unmatched in at most max_missing_frames
\* consecutive updates is still held and, when the assignment then matches it
\* to a cluster, continues with the same id; a track unmatched in
\* max_missing_frames + 1 consecutive updates is removed by that update, its
\* id never appears again, and a later cluster at the same position is emitted
\* under a different id.
Thm_C3 ==
    [][UpdateStep => \A a \in {StepAssign} :
         /\ \A ti \in 1..Len(tracks) :
               /\ tracks[ti].missing_frames <= max_missing
               /\ WasMatched(a, ti) =>
                     /\ HeldAfter(ti)
                     /\ After(ti).missing_frames = 0
                     /\ After(ti).centroid = clusters'[MatchOf(a, ti)].centroid
               /\ (~WasMatched(a, ti) /\ tracks[ti].missing_frames + 1 <= max_missing) =>
                     /\ HeldAfter(ti)
                     /\ After(ti).missing_frames = tracks[ti].missing_frames + 1
                     /\ After(ti).centroid = tracks[ti].centroid
               /\ (~WasMatched(a, ti) /\ tracks[ti].missing_frames + 1 > max_missing) =>
                     /\ ~HeldAfter(ti)
                     /\ tracks[ti].track_id \in retired'
         /\ retired \subseteq retired'
         /\ retired' \cap (TrackIds(tracks') \cup ObjectIds(objects')) = {}
         /\ \A i \in 1..Len(tracks') : tracks'[i].missing_frames <= max_missing]_vars

\* C3 witness: a track that missed max_missing_frames >= 1 updates in a row is
\* held, and the id of a track retired before is gone while a later cluster is
\* emitted under a higher id.
Wit_C3 ==
    /\ retired # {}
    /\ max_missing >= 1
    /\ \E i \in 1..Len(tracks) : tracks[i].missing_frames = max_missing
    /\ \E k \in 1..Len(objects) : \A d \in retired : objects[k].object_id > d

\* C4: a confirmed track, and so every emitted object, has been associated
\* with a cluster in at least min_confirm_frames updates, the update that
\* spawned it counting as one; updates in which it was unmatched do not count.
Orig_C4 ==
    /\ \A i \in 1..Len(tracks) :
          tracks[i].confirmed => hits[tracks[i].track_id] >= min_confirm
    /\ \A k \in 1..Len(objects) : hits[objects[k].object_id] >= min_confirm

\* the published view of a track, field by field
Published(t, o) ==
    /\ o.object_id = t.track_id
    /\ o.centroid = t.centroid
    /\ o.velocity = t.velocity
    /\ o.bounding_radius_mm = t.bounding_radius_mm
    /\ o.age = t.age
    /\ o.points = t.points

\* indices of the held tracks that are confirmed and were seen in the last update
VisibleIdx == {i \in 1..Len(tracks) : tracks[i].confirmed /\ tracks[i].missing_frames = 0}

\* C5: update returns exactly one TrackedObject for each held track that is
\* confirmed and has missing_frames = 0, in the list's order, and nothing else:
\* no tentative track, no track unmatched in this update, nothing when it was
\* given no clusters.
Thm_C5 ==
    [][UpdateStep => \A a \in {StepAssign} :
         /\ Len(objects') = Cardinality(VisibleIdx')
         /\ \A i \in VisibleIdx' :
               \E k \in 1..Len(objects') :
                  /\ Published(tracks'[i], objects'[k])
                  /\ k = Cardinality({j \in VisibleIdx' : j <= i})
         /\ \A ti \in 1..Len(tracks) :
               ~WasMatched(a, ti) => tracks[ti].track_id \notin ObjectIds(objects')
         /\ \A i \in 1..Len(tracks') :
               ~tracks'[i].confirmed => tracks'[i].track_id \notin ObjectIds(objects')
         /\ clusters' = <<>> => objects' = <<>>]_vars

\* C5 witness: after an update the tracker holds a confirmed track that was
\* unmatched, a tentative track and a confirmed matched track, and returned
\* only the last.
Wit_C5 ==
    /\ Len(objects) = 1
    /\ \E i \in 1..Len(tracks) : tracks[i].confirmed /\ tracks[i].missing_frames > 0
    /\ \E i \in 1..Len(tracks) : ~tracks[i].confirmed /\ tracks[i].missing_frames = 0
    /\ \E i \in 1..Len(tracks) :
          tracks[i].confirmed /\ tracks[i].missing_frames = 0
             /\ objects[1].object_id = tracks[i].track_id

\* C6: a track matched to a cluster gets velocity = cluster centroid minus the
\* track's centroid before the update, componentwise, and the cluster's
\* centroid; a newly spawned track has velocity (0, 0).
Thm_C6 ==
    [][UpdateStep => \A a \in {StepAssign} :
         /\ \A ti \in 1..Len(tracks) :
               WasMatched(a, ti) =>
                  LET c == clusters'[MatchOf(a, ti)]
                  IN /\ HeldAfter(ti)
                     /\ After(ti).velocity.x = c.centroid.x - tracks[ti].centroid.x
                     /\ After(ti).velocity.y = c.centroid.y - tracks[ti].centroid.y
                     /\ After(ti).centroid = c.centroid
         /\ \A i \in 1..Len(tracks') :
               tracks'[i].track_id \notin TrackIds(tracks) =>
                  tracks'[i].velocity.x = 0 /\ tracks'[i].velocity.y = 0]_vars

\* C6 witness: a track matched in the last update moved in x and in y, and a
\* track spawned by that update is held beside it.
Wit_C6 ==
    /\ \E i \in 1..Len(tracks) :
          /\ tracks[i].missing_frames = 0
          /\ tracks[i].age >= 2
          /\ tracks[i].velocity.x # 0
          /\ tracks[i].velocity.y # 0
    /\ \E i \in 1..Len(tracks) : tracks[i].age = 1

\* C7: after every update each held track that existed before is exactly one
\* update older, matched or not, and its missing_frames is 0 if and only if it
\* was matched to a cluster in this update.
Thm_C7 ==
    [][UpdateStep => \A a \in {StepAssign} :
         \A i \in 1..Len(tracks') :
            tracks'[i].track_id \in TrackIds(tracks) =>
               LET ti == IndexOfId(tracks, tracks'[i].track_id)
               IN /\ tracks'[i].age = tracks[ti].age + 1
                  /\ (tracks'[i].missing_frames = 0) <=> WasMatched(a, ti)]_vars

\* C7 witness: a track three updates old is held with a miss on its record
\* beside a track that was matched in the last update.
Wit_C7 ==
    /\ \E i \in 1..Len(tracks) : tracks[i].age = 3 /\ tracks[i].missing_frames = 1
    /\ \E i \in 1..Len(tracks) : tracks[i].age >= 2 /\ tracks[i].missing_frames = 0

Thm_C9 ==
    [][call'.op = "prune_inactive" =>
         /\ DOMAIN trajectories' = DOMAIN trajectories \cap call'.active_ids
         /\ \A id \in DOMAIN trajectories' : trajectories'[id] = trajectories[id]
         /\ DOMAIN ret' = DOMAIN trajectories \ call'.active_ids
         /\ \A id \in DOMAIN ret' : ret'[id] = trajectories[id]]_vars

\* C9 witness: a prune call removed one id with a history of two points, kept
\* another, and was given an active id that the store never held.
Wit_C9 ==
    /\ call.op = "prune_inactive"
    /\ \E id \in DOMAIN ret : Len(ret[id]) >= 2
    /\ DOMAIN trajectories # {}
    /\ \E id \in call.active_ids : id \notin DOMAIN trajectories

(* --------------------- claims about TrackingEngine --------------------- *)
\* C10: between resets no process_scan, reset_background or lookup removes a
\* trajectory: an id that has recorded points keeps a non-empty trajectory,
\* get_trajectory returns it, and once the track with that id is retired its
\* trajectory is never changed again.
Thm_C10 ==
    [][call'.op # "reset" =>
         /\ \A id \in DOMAIN trajectories :
               /\ id \in DOMAIN trajectories'
               /\ Len(trajectories'[id]) >= 1
               /\ id \in retired => trajectories'[id] = trajectories[id]
         /\ (call'.op = "get_trajectory" /\ call'.object_id \in DOMAIN trajectories) =>
               ret' = trajectories[call'.object_id] /\ ret' # <<>>]_vars

\* C10 witness: a process_scan ran two frames or more after the last point of
\* a retired track's trajectory, which the store still holds, and emitted an
\* object under another id.
Wit_C10 ==
    /\ call.op = "process_scan"
    /\ Len(objects) >= 1
    /\ \E id \in retired :
          /\ id \in DOMAIN trajectories
          /\ trajectories[id][Len(trajectories[id])].frame_number + 3 <= frame_count
          /\ \A k \in 1..Len(objects) : objects[k].object_id # id

\* C11: frame_count starts at 0; every process_scan, whatever the scan, adds
\* exactly 1 to it and returns a frame numbered with its value before the call;
\* reset puts it back to 0 and no other call changes it, so the n-th
\* process_scan after construction or reset returns frame_number n-1.
Thm_C11 ==
    /\ frame_count = 0
    /\ [][(call'.op = "process_scan" =>
              frame_count' = frame_count + 1 /\ ret'.frame_number = frame_count)
          /\ (call'.op = "reset" => frame_count' = 0)
          /\ (call'.op \notin {"process_scan", "reset"} =>
                 frame_count' = frame_count)]_vars

\* C11 witness: an empty scan was processed as the second scan after a reset
\* that followed an earlier scan, and its frame carries the number 1.
Wit_C11 ==
    /\ call.op = "process_scan"
    /\ call.points = <<>>
    /\ nscans = 3
    /\ frame_count = 2
    /\ ret.frame_number = 1

\* the configuration the engine was constructed with
EngineConfig ==
    <<num_bins, learning_rate, threshold, min_frames, cluster_eps, cluster_min_samples,
      max_cluster_radius, max_match_dist, max_missing, min_confirm, max_length>>

\* the engine holds what TrackingEngine.__init__ leaves behind
FreshEngine ==
    /\ frame_count = 0
    /\ background = EmptyBackground(num_bins)
    /\ bin_counts = ZeroCounts(num_bins)
    /\ bg_frame_count = 0
    /\ min_frames >= 1 => ~IsReady(bg_frame_count, min_frames)
    /\ tracks = <<>>
    /\ next_id = 1
    /\ StoreGetAll(trajectories) = <<>>

\* C12: reset, after any history, leaves the engine as __init__ leaves it with
\* the same configuration: frame_count 0, background not ready, no trajectory,
\* no track, next id 1; so every track held or emitted afterwards was created
\* after the reset, and the first one created has id 1.
Thm_C12 ==
    /\ [][call'.op = "reset" => FreshEngine' /\ EngineConfig' = EngineConfig]_vars
    /\ [](/\ issued # <<>> => issued[1] = 1
          /\ TrackIds(tracks) \subseteq Range(issued)
          /\ ObjectIds(objects) \subseteq Range(issued))

\* C12 witness: the engine was reset after two scans, and the scan after the
\* reset created the only track it holds, with id 1, and emitted it.
Wit_C12 ==
    /\ call.op = "process_scan"
    /\ nscans = 3
    /\ frame_count = 1
    /\ issued = <<1>>
    /\ ObjectIds(objects) = {1}
    /\ next_id = 2

\* C13: reset_background puts every bin back to unlearned and the per-bin
\* counts and the learning frame counter to 0, and leaves the tracker's tracks
\* and next id, the stored trajectories, frame_count and the configuration as
\* they were.
Thm_C13 ==
    [][call'.op = "reset_background" =>
         /\ background' = EmptyBackground(num_bins)
         /\ bin_counts' = ZeroCounts(num_bins)
         /\ bg_frame_count' = 0
         /\ tracks' = tracks
         /\ next_id' = next_id
         /\ trajectories' = trajectories
         /\ frame_count' = frame_count
         /\ EngineConfig' = EngineConfig]_vars

\* C13 witness: reset_background ran on an engine that holds a track and a
\* trajectory two frames in, and the background is unlearned while they remain.
Wit_C13 ==
    /\ call.op = "reset_background"
    /\ bg_frame_count = 0
    /\ frame_count >= 2
    /\ tracks # <<>>
    /\ next_id >= 2
    /\ DOMAIN trajectories # {}

(* --------------------- claims about BackgroundModel -------------------- *)
\* C14: is_ready() is true exactly when the number of update calls since
\* construction or the last reset is at least min_learning_frames, whatever the
\* scans held, and while it is false classify returns the empty list for every
\* input.
Thm_C14 ==
    /\ IsReady(bg_frame_count, min_frames) <=> Len(fed) >= min_frames
    /\ call.op = "is_ready" => (ret <=> Len(fed) >= min_frames)
    /\ Len(fed) < min_frames =>
          \A points \in ScanInputs :
             Classify(background, bg_frame_count, points, num_bins, threshold,
                      min_frames) = <<>>
    /\ (call.op = "classify" /\ Len(fed) < min_frames) => ret = <<>>

\* C14 witness: classify returned the empty list one update short of
\* min_learning_frames = 2, for a scan with a point that lies in front of the
\* learned background by more than the threshold.
Wit_C14 ==
    /\ call.op = "classify"
    /\ min_frames = 2
    /\ Len(fed) = 1
    /\ ret = <<>>
    /\ \E i \in 1..Len(call.points) :
          IsForeground(background, call.points[i], num_bins, threshold)

\* every update since construction or the last reset was given the scan S
StaticHistory(S) == \A i \in 1..Len(fed) : fed[i] = S

\* C16: after the same scan S, of positive ranges, was fed to update
\* min_learning_frames + 1 times or more on a fresh model, classify(S) is empty.
Orig_C16 ==
    \A S \in ScanInputs :
       (/\ \A i \in 1..Len(S) : S[i].distance_mm > 0
        /\ Len(fed) >= min_frames + 1
        /\ StaticHistory(S)) =>
          Classify(background, bg_frame_count, S, num_bins, threshold, min_frames) = <<>>

RECURSIVE BgReplay(_, _, _, _, _)
\* a BackgroundModel constructed with threshold thr after update was called
\* with each of the scans in turn
BgReplay(m, scans, bins, rate, thr) ==
    IF scans = <<>> THEN m
    ELSE BgReplay(BgUpdate(m, Head(scans), bins, rate, thr), Tail(scans), bins, rate, thr)

\* the background arrays of the model that was fed the scans of this run with
\* the threshold thr
TwinOf(thr) ==
    BgReplay([background |-> EmptyBackground(num_bins), bin_counts |-> ZeroCounts(num_bins)],
             fed, num_bins, learning_rate, thr)

\* the set of points classify returns for the scan S from the model m with
\* threshold thr after the updates of this run
ForegroundSet(m, S, thr) ==
    Range(Classify(m.background, Len(fed), S, num_bins, thr, min_frames))

\* the scan of the call just made (every scan is classified after every history)
LastScan == IF call.op \in {"classify", "update"} THEN call.points ELSE <<>>

\* C17: of two BackgroundModels that differ only in the threshold, T1 <= T2,
\* and were given the same update calls, the one with T2 returns from classify,
\* for every scan, a subset of what the one with T1 returns.
Thm_C17 ==
    /\ TwinOf(threshold).background = background
    /\ bg_frame_count = Len(fed)
    /\ \A T1 \in ThresholdChoices : \A T2 \in ThresholdChoices :
          T1 < T2 =>
             \A m1 \in {TwinOf(T1)} : \A m2 \in {TwinOf(T2)} :
                ForegroundSet(m2, LastScan, T2) \subseteq ForegroundSet(m1, LastScan, T1)

\* C17 witness: classify returned a point from the model with threshold 1
\* that the model with threshold 2, fed the same two scans, has learned a
\* different background from and does not return.
Wit_C17 ==
    /\ call.op = "classify"
    /\ threshold = 1
    /\ Len(fed) = 2
    /\ ret # <<>>
    /\ TwinOf(2).background # background
    /\ ForegroundSet(TwinOf(2), call.points, 2) # Range(ret)

(* ------------------ claims about the engine's pipeline ----------------- *)
\* C15: a process_scan that is one of the first min_learning_frames - 1 since
\* construction, reset or reset_background returns a frame without objects and
\* records no trajectory point, whatever the scan and the tracks held.
Thm_C15 ==
    [][(call'.op = "process_scan" /\ Len(fed) + 1 <= min_frames - 1) =>
          /\ ret'.objects = <<>>
          /\ trajectories' = trajectories]_vars

\* C15 witness: the first scan after a reset_background, with a point in front
\* of the background it seeded by more than the threshold, was processed by an
\* engine with min_learning_frames = 2 that holds a track, and gave no object.
Wit_C15 ==
    /\ call.op = "process_scan"
    /\ min_frames = 2
    /\ Len(fed) = 1
    /\ frame_count >= 2
    /\ tracks # <<>>
    /\ \E i \in 1..Len(fed[1]) : IsForeground(background, fed[1][i], num_bins, threshold)
    /\ ret.objects = <<>>

(* ----------------------- claims about cluster_points ------------------ *)
\* the number of input points within eps of the point p (p counts if it is one)
NearCount(p) ==
    Cardinality({j \in 1..Len(call.points) :
                   DistSq(call.points[j], p) <=
                      (call.eps_mm * ClusterScale) * (call.eps_mm * ClusterScale)})

\* the radius limit of the call, squared, in the unit of bounding_radius_mm
RadiusLimitSq ==
    (call.max_cluster_radius_mm * ClusterScale) * (call.max_cluster_radius_mm * ClusterScale)

\* C18 as stated: every cluster returned has a bounding radius within the limit
\* and at least min_samples member points, and fewer than min_samples input
\* points give no cluster.
Orig_C18 ==
    call.op = "cluster_points" =>
       /\ \A k \in 1..Len(ret) :
             /\ ret[k].bounding_radius_mm <= RadiusLimitSq
             /\ Len(ret[k].points) >= call.min_samples
       /\ Len(call.points) < call.min_samples => ret = <<>>

\* C18, amended: every cluster returned has a bounding radius within the limit
\* and at least one member point that has min_samples or more of the input
\* points within eps_mm of it, itself included (the cluster itself may hold
\* fewer than min_samples points); fewer than min_samples input points give no
\* cluster.
Thm_C18 ==
    call.op = "cluster_points" =>
       /\ \A k \in 1..Len(ret) :
             /\ ret[k].bounding_radius_mm <= RadiusLimitSq
             /\ Len(ret[k].points) >= 1
             /\ \E i \in 1..Len(ret[k].points) :
                   NearCount(ret[k].points[i]) >= call.min_samples
       /\ Len(call.points) < call.min_samples => ret = <<>>

\* C18 witness: cluster_points returned a cluster with fewer members than
\* min_samples, each of them with an input point within eps_mm that is not a
\* member.
Wit_C18 ==
    /\ call.op = "cluster_points"
    /\ \E k \in 1..Len(ret) :
          /\ Len(ret[k].points) < call.min_samples
          /\ \A i \in 1..Len(ret[k].points) :
                NearCount(ret[k].points[i]) > Len(ret[k].points)

\* C19: for every cluster returned, the centroid is the arithmetic mean of the
\* x and of the y coordinates of its member points, which are input points that
\* no other cluster holds, and bounding_radius_mm (kept squared) is the largest
\* distance from the centroid to a member.
Thm_C19 ==
    call.op = "cluster_points" =>
       \A k \in 1..Len(ret) :
          \A c \in {ret[k]} :
             \A n \in {Len(c.points)} :
                /\ n >= 1
                /\ n * c.centroid.x = SumSeq([i \in 1..n |-> c.points[i].x])
                /\ n * c.centroid.y = SumSeq([i \in 1..n |-> c.points[i].y])
                /\ \A i \in 1..n : DistSq(c.points[i], c.centroid) <= c.bounding_radius_mm
                /\ \E i \in 1..n : DistSq(c.points[i], c.centroid) = c.bounding_radius_mm
                /\ Range(c.points) \subseteq Range(call.points)
                /\ \A j \in 1..Len(ret) :
                      j # k => Range(ret[j].points) \cap Range(c.points) = {}

\* C19 witness: cluster_points returned two clusters, one of them with three
\* members or more whose mean is not a whole number of mm and lies off every
\* member.
Wit_C19 ==
    /\ call.op = "cluster_points"
    /\ Len(ret) >= 2
    /\ \E k \in 1..Len(ret) :
          /\ Len(ret[k].points) >= 3
          /\ ret[k].centroid.x % ClusterScale # 0
          /\ ret[k].centroid \notin Range(ret[k].points)
          /\ ret[k].bounding_radius_mm > 0

(* ------------------ claims about the engine's boundary ----------------- *)
\* the points of the scan S with a positive range, in order
ValidPoints(S) ==
    LET idx == SelectSeq(Indices(Len(S)), LAMBDA i : ~(S[i].distance_mm <= 0))
    IN [k \in 1..Len(idx) |-> S[idx[k]]]

\* the number of points of the scan S that fall into bin b
InBin(S, b) == Cardinality({i \in 1..Len(S) : AngleToBin(S[i].angle_deg, num_bins) = b})

\* the step left the engine and its result as the pipeline of process_scan
\* leaves them for the scan V, every point of which has a positive range
OutcomeOf(V, ts) ==
    \A m \in {BgUpdate([background |-> background, bin_counts |-> bin_counts], V,
                        num_bins, learning_rate, threshold)} :
    \A fg \in {Classify(m.background, bg_frame_count + 1, V, num_bins, threshold,
                         min_frames)} :
    \A cl \in {ClusterPoints(PolarPointsToCartesian(fg), cluster_eps * CoordScale,
                              cluster_min_samples, max_cluster_radius * CoordScale)} :
    \A r \in {TrackerUpdate(tracks, next_id, cl, max_match_dist, max_missing,
                             min_confirm)} :
       /\ background' = m.background
       /\ bin_counts' = m.bin_counts
       /\ bg_frame_count' = bg_frame_count + 1
       /\ tracks' = r.tracks
       /\ next_id' = r.next_id
       /\ trajectories' = RecordEach(trajectories, r.objects, frame_count, ts, max_length)
       /\ frame_count' = frame_count + 1
       /\ ret' = [frame_number |-> frame_count, objects |-> r.objects, timestamp |-> ts]

\* C20: process_scan(S) returns the frame and leaves the engine in the state
\* that process_scan gives for S without its points of range <= 0; a bin gets
\* one count per point of positive range and is neither seeded nor updated
\* without one, and no point of range 0 (the origin) is part of an object.
Thm_C20 ==
    [][call'.op = "process_scan" =>
         \A V \in {ValidPoints(call'.points)} :
            /\ OutcomeOf(V, call'.timestamp)
            /\ \A b \in 0..(num_bins - 1) :
                  /\ bin_counts'[b] = bin_counts[b] + InBin(V, b)
                  /\ InBin(V, b) = 0 => background'[b] = background[b]
            /\ \A k \in 1..Len(ret'.objects) :
                  CartesianPoint(0, 0) \notin Range(ret'.objects[k].points)]_vars

\* C20 witness: a scan with a reading of range 0 in a bin that has no other
\* point, and with a valid point that became an object, was processed; the bin
\* of the reading is still unlearned.
Wit_C20 ==
    /\ call.op = "process_scan"
    /\ ret.objects # <<>>
    /\ \E i \in 1..Len(call.points) :
          /\ call.points[i].distance_mm = 0
          /\ bin_counts[AngleToBin(call.points[i].angle_deg, num_bins)] = 0
          /\ background[AngleToBin(call.points[i].angle_deg, num_bins)] = Inf

(* ------------------ claims about BackgroundModel.update ----------------- *)
\* the points of the scan S that fall into bin b, in order
PointsInBin(S, b) == SelectSeq(S, LAMBDA p : AngleToBin(p.angle_deg, num_bins) = b)

\* what update does to the model with one point p
PointLaw(p) ==
    \A m \in {BgUpdatePoint([background |-> background, bin_counts |-> bin_counts], p,
                             num_bins, learning_rate, threshold)} :
    \A b \in {AngleToBin(p.angle_deg, num_bins)} :
       /\ bin_counts[b] = 0 => m.background[b] = p.distance_mm * RangeScale
       /\ (bin_counts[b] > 0 /\
           p.distance_mm * RangeScale < background[b] - threshold * RangeScale) =>
             m.background[b] = background[b]
       /\ m.bin_counts[b] = bin_counts[b] + 1
       /\ \A o \in 0..(num_bins - 1) :
             o # b => m.background[o] = background[o] /\ m.bin_counts[o] = bin_counts[o]

\* what an update call with the scan S does to bin b
ScanLaw(S, b) ==
    \A P \in {PointsInBin(S, b)} :
       /\ bin_counts'[b] = bin_counts[b] + Len(P)
       /\ P = <<>> => background'[b] = background[b]
       /\ (bin_counts[b] = 0 /\ P # <<>>) =>
             /\ background'[b] # Inf
             /\ Len(P) = 1 => background'[b] = P[1].distance_mm * RangeScale
       /\ (bin_counts[b] > 0 /\
           \A i \in 1..Len(P) :
              P[i].distance_mm * RangeScale < background[b] - threshold * RangeScale) =>
             background'[b] = background[b]

\* C21: update seeds an unobserved bin with the point's range, leaves a seeded
\* bin as it is for a point closer than the background by more than the
\* threshold, so that no run of such samples moves it, counts the point in its
\* bin in every case and touches no other bin.
Thm_C21 ==
    /\ [](\A p \in ScanPoints : PointLaw(p))
    /\ [][call'.op = "update" =>
            \A b \in 0..(num_bins - 1) : ScanLaw(call'.points, b)]_vars

\* C21 witness: a bin seeded at 3 mm was then given two samples at 1 mm in one
\* update and still holds 3 mm, with three observations counted.
Wit_C21 ==
    /\ call.op = "update"
    /\ Len(fed) = 2
    /\ Len(fed[1]) = 1
    /\ Len(fed[2]) = 2
    /\ \A i \in 1..2 : fed[2][i].distance_mm = 1
    /\ \E b \in 0..(num_bins - 1) :
          bin_counts[b] = 3 /\ background[b] = 3 * RangeScale

(* ------------------ claims about ObjectTracker._assign ----------------- *)
\* the (track, cluster) index pairs within the gate in this step
Candidates ==
    {tc \in (1..Len(tracks)) \X (1..Len(clusters')) :
        DistSq(Predict(tracks)[tc[1]], clusters'[tc[2]].centroid)
           <= max_match_dist * max_match_dist}

\* the pair p comes before the pair q in ascending (cost, track, cluster) order
Before(p, q) ==
    LET cp == DistSq(Predict(tracks)[p[1]], clusters'[p[2]].centroid)
        cq == DistSq(Predict(tracks)[q[1]], clusters'[q[2]].centroid)
    IN \/ cp < cq
       \/ cp = cq /\ p[1] < q[1]
       \/ cp = cq /\ p[1] = q[1] /\ p[2] < q[2]

\* s lists the set S of integers in ascending order
Ascending(s, S) ==
    /\ Range(s) = S
    /\ \A i \in 1..Len(s) : \A j \in 1..Len(s) : i < j => s[i] < s[j]

\* C22: the assignment of an update is the greedy one: only pairs within the
\* gate of the predicted position are matched; a pair within the gate is
\* matched exactly when no pair before it in (cost, track, cluster) order that
\* shares its track or its cluster is matched; so a track has at most one
\* cluster, a cluster at most one track, and no unmatched track is left within
\* the gate of an unmatched cluster; the matched tracks take their clusters.
Thm_C22 ==
    [][UpdateStep => \A a \in {StepAssign} : \A M \in {Range(a.matches)} :
         /\ M \subseteq Candidates
         /\ \A p \in Candidates :
               p \in M <=>
                  ~\E q \in M : Before(q, p) /\ (q[1] = p[1] \/ q[2] = p[2])
         /\ \A i \in 1..Len(a.matches) : \A j \in 1..Len(a.matches) :
               i < j => Before(a.matches[i], a.matches[j])
         /\ \A p \in M : \A q \in M : (p[1] = q[1] \/ p[2] = q[2]) => p = q
         /\ Ascending(a.unmatched_tracks, (1..Len(tracks)) \ {p[1] : p \in M})
         /\ Ascending(a.unmatched_clusters, (1..Len(clusters')) \ {p[2] : p \in M})
         /\ \A t \in Range(a.unmatched_tracks) : \A c \in Range(a.unmatched_clusters) :
               <<t, c>> \notin Candidates
         /\ \A p \in M :
               /\ HeldAfter(p[1])
               /\ After(p[1]).centroid = clusters'[p[2]].centroid
               /\ After(p[1]).missing_frames = 0]_vars

\* C22 witness: a track went unmatched in the last update although a cluster
\* lay within the gate of its prediction; that cluster went to an older track
\* and the other cluster of the call to a second one.
Wit_C22 ==
    /\ Len(clusters) = 2
    /\ \E u \in 1..Len(tracks) : \E v \in 1..Len(tracks) : \E w \in 1..Len(tracks) :
          /\ tracks[u].missing_frames = 1
          /\ InGate(Predict(tracks)[u], clusters[1].centroid, max_match_dist)
          /\ v # w
          /\ tracks[v].missing_frames = 0 /\ tracks[v].age >= 2
          /\ tracks[v].centroid = clusters[1].centroid
          /\ tracks[w].missing_frames = 0 /\ tracks[w].age >= 2
          /\ tracks[w].centroid = clusters[2].centroid

\* the tracks of tracks' that the step created, in the list's order
NewTracks == SelectSeq(tracks', LAMBDA t : t.track_id \notin TrackIds(tracks))

\* the indices of the clusters of the step that no track was matched to
Unclaimed(M) == {c \in 1..Len(clusters') : \A p \in M : p[2] # c}

Window(q, B) ==
    IF B = 0 \/ Len(q) <= B THEN q ELSE SubSeq(q, Len(q) - B + 1, Len(q))

\* the points recorded for an id since it was last pruned, oldest first
RecordedFor(id) == IF id \in DOMAIN recorded THEN recorded[id] ELSE <<>>

\* C24: get returns, oldest first, the most recent min(n, B) of the n points
\* recorded for the id (all n when B = 0); for an id with no recorded point
\* it returns the empty list and creates no entry; a change that the caller
\* makes to a returned list leaves what get returns as it was.
Thm_C24 ==
    [][/\ (call'.op = "get" =>
            /\ ret' = Window(RecordedFor(call'.object_id), max_length)
            /\ trajectories' = trajectories
            /\ (call'.object_id \notin DOMAIN recorded =>
                  ret' = <<>> /\ call'.object_id \notin DOMAIN trajectories'))
       /\ (call'.op = "change_result" =>
            /\ ret' # ret
            /\ StoreGet(trajectories', call'.object_id) = ret
            /\ StoreGet(trajectories', call'.object_id)
                  = Window(RecordedFor(call'.object_id), max_length))
       /\ (call'.op = "record" =>
            StoreGet(trajectories', call'.object_id)
               = Window(RecordedFor(call'.object_id) \o <<call'.point>>, max_length))]_vars

\* C24 witness: with bound 2 an id was given three points or more, get
\* returned its last two and the caller then appended to the returned list,
\* while another id has never been recorded.
Wit_C24 ==
    /\ max_length = 2
    /\ call.op = "change_result"
    /\ Len(RecordedFor(call.object_id)) >= 3
    /\ Len(ret) = 3
    /\ SubSeq(ret, 1, 2) = Window(recorded[call.object_id], 2)
    /\ recorded[call.object_id][1] # recorded[call.object_id][Len(recorded[call.object_id])]
    /\ \E id \in StoreIds : id \notin DOMAIN trajectories

\* the trajectory point that process_scan records for object o of frame f
PointOf(o, f) == TrajectoryPoint(o.centroid.x, o.centroid.y, f.frame_number, f.timestamp)

\* C25: every process_scan appends to the trajectory of each object of the
\* frame it returns one point with that object's centroid and the frame's
\* number, and changes the trajectory of no other id; so between resets the
\* frame numbers of every trajectory increase strictly, and with
\* max_trajectory_length 0 a trajectory grows by one exactly in the frames
\* that emit its id, starting from none.
Thm_C25 ==
    /\ trajectories = <<>>
    /\ [][(call'.op = "process_scan" =>
             \A f \in {ret'} : \A ids \in {ObjectIds(f.objects)} :
               /\ Cardinality(ids) = Len(f.objects)
               /\ DOMAIN trajectories' = DOMAIN trajectories \cup ids
               /\ \A k \in 1..Len(f.objects) :
                     trajectories'[f.objects[k].object_id]
                        = Window(StoreGet(trajectories, f.objects[k].object_id)
                                   \o <<PointOf(f.objects[k], f)>>, max_length)
               /\ \A id \in DOMAIN trajectories \ ids :
                     trajectories'[id] = trajectories[id]
               /\ max_length = 0 =>
                     \A id \in DOMAIN trajectories' :
                        Len(trajectories'[id]) = Len(StoreGet(trajectories, id))
                                                   + (IF id \in ids THEN 1 ELSE 0))
          /\ (call'.op = "reset" => trajectories' = <<>>)
          /\ (call'.op \notin {"process_scan", "reset"} => trajectories' = trajectories)]_vars
    /\ [](\A id \in DOMAIN trajectories :
            \A i \in 1..Len(trajectories[id]) : \A j \in 1..Len(trajectories[id]) :
               i < j => trajectories[id][i].frame_number < trajectories[id][j].frame_number)

\* C25 witness: with max_trajectory_length 0 a process_scan returned a frame
\* with an object whose trajectory now holds two points or more, while the
\* trajectory of an id that the frame does not list ends at an earlier frame.
Wit_C25 ==
    /\ call.op = "process_scan"
    /\ max_length = 0
    /\ \E k \in 1..Len(ret.objects) :
          /\ Len(trajectories[ret.objects[k].object_id]) >= 2
          /\ trajectories[ret.objects[k].object_id][Len(trajectories[ret.objects[k].object_id])]
                = PointOf(ret.objects[k], ret)
    /\ \E id \in DOMAIN trajectories :
          /\ id \notin ObjectIds(ret.objects)
          /\ trajectories[id][Len(trajectories[id])].frame_number < ret.frame_number

(* ----------------------- claims about _range_query -------------------- *)
\* eps of the call in coordinate units
EpsOfCall == call.eps_mm * ClusterScale

\* the indices of the points at a squared distance of eps squared or less from point i
WithinEps(xy, i, eps) == {j \in 1..Len(xy) : DistSq(xy[j], xy[i]) <= eps * eps}

\* C26: for every point list, with negative coordinates and points on cell
\* boundaries among them, _range_query at index i returns the indices j with
\* squared distance to point i of eps squared or less, each once, i included.
Thm_C26 ==
    \A i \in 1..Len(call.points) :
       \A r \in {RangeQuery(call.points, i, EpsOfCall)} :
          /\ Range(r) = WithinEps(call.points, i, EpsOfCall)
          /\ Cardinality(Range(r)) = Len(r)
          /\ i \in Range(r)

\* C26 witness: cluster_points ran on points of negative coordinates, some on
\* a cell boundary and some inside a cell, where a query returns a point of
\* another cell and leaves out a point of a neighbouring cell.
Wit_C26 ==
    /\ call.op = "cluster_points"
    /\ \E i \in 1..Len(call.points) : call.points[i].x < 0 /\ call.points[i].y < 0
    /\ \E i \in 1..Len(call.points) : call.points[i].x % EpsOfCall = 0
    /\ \E i \in 1..Len(call.points) : call.points[i].x % EpsOfCall # 0
    /\ \E i \in 1..Len(call.points) : \E j \in 1..Len(call.points) : \E k \in 1..Len(call.points) :
          \A ci \in {CellOf(call.points[i], EpsOfCall)} :
          \A cj \in {CellOf(call.points[j], EpsOfCall)} :
          \A ck \in {CellOf(call.points[k], EpsOfCall)} :
             /\ cj # ci
             /\ j \in Range(RangeQuery(call.points, i, EpsOfCall))
             /\ ck # ci
             /\ ck[1] - ci[1] \in {-1, 0, 1}
             /\ ck[2] - ci[2] \in {-1, 0, 1}
             /\ k \notin Range(RangeQuery(call.points, i, EpsOfCall))

(* ----------------------- claims about _grid_dbscan --------------------- *)
\* the indices of the core points: min_samples points or more within eps, itself included
CorePoints(xy, eps, min_samples) ==
    {i \in 1..Len(xy) : Cardinality(WithinEps(xy, i, eps)) >= min_samples}

\* C27: in the labels of _grid_dbscan two core points within eps of each
\* other carry the same cluster label; every labelled point is a core point or
\* lies within eps of a core point of its label; a point that is not a core
\* point and has no core point within eps keeps -1 and is in no cluster that
\* cluster_points returns.
Thm_C27 ==
    \A xy \in {call.points} :
    \A L \in {GridDbscan(xy, EpsOfCall, call.min_samples)} :
    \A core \in {CorePoints(xy, EpsOfCall, call.min_samples)} :
       /\ \A i \in core : L[i] >= 0
       /\ \A i \in core : \A j \in core \cap WithinEps(xy, i, EpsOfCall) : L[i] = L[j]
       /\ \A i \in 1..Len(xy) :
             L[i] # -1 =>
                \/ i \in core
                \/ \E j \in core \cap WithinEps(xy, i, EpsOfCall) : L[j] = L[i]
       /\ \A i \in 1..Len(xy) :
             (i \notin core /\ core \cap WithinEps(xy, i, EpsOfCall) = {}) =>
                /\ L[i] = -1
                /\ call.op = "cluster_points" =>
                      \A k \in 1..Len(ret) : xy[i] \notin Range(ret[k].points)

\* C27 witness: cluster_points returned a cluster for points with two core
\* points within eps of each other, a labelled point that is no core point,
\* and a point with no core point within eps.
Wit_C27 ==
    /\ call.op = "cluster_points"
    /\ ret # <<>>
    /\ \A xy \in {call.points} :
       \A L \in {GridDbscan(xy, EpsOfCall, call.min_samples)} :
       \A core \in {CorePoints(xy, EpsOfCall, call.min_samples)} :
          /\ \E i \in core : \E j \in core : i # j /\ j \in WithinEps(xy, i, EpsOfCall)
          /\ \E i \in 1..Len(xy) : i \notin core /\ L[i] >= 0
          /\ \E i \in 1..Len(xy) :
                i \notin core /\ core \cap WithinEps(xy, i, EpsOfCall) = {} /\ L[i] = -1

(* ------------------ claims about the number of tracks ------------------ *)
\* the clusters given to the last k update calls, or to all of them if fewer
SuppliedLast(k) ==
    SumSeq(SubSeq(supplied, MaxOf({1, Len(supplied) - k + 1}), Len(supplied)))

\* C28: after every update every held track has 0 <= missing_frames <=
\* max_missing_frames and missing_frames < age, and the held tracks are no more
\* than the clusters given to the last max_missing_frames + 1 updates.
Thm_C28 ==
    /\ \A i \in 1..Len(tracks) :
          /\ 0 <= tracks[i].missing_frames
          /\ tracks[i].missing_frames <= max_missing
          /\ tracks[i].missing_frames < tracks[i].age
    /\ Len(tracks) <= SuppliedLast(max_missing + 1)

\* C28 witness: three updates in, with max_missing_frames 1, the tracker holds
\* as many tracks as the last two updates were given clusters, one of them at
\* its last permitted miss, after a first update that was given clusters too.
Wit_C28 ==
    /\ max_missing = 1
    /\ Len(supplied) = 3
    /\ supplied[1] >= 1
    /\ Len(tracks) = supplied[2] + supplied[3]
    /\ Len(tracks) >= 2
    /\ \E i \in 1..Len(tracks) : tracks[i].missing_frames = 1 /\ tracks[i].age = 2
    /\ \E i \in 1..Len(tracks) : tracks[i].missing_frames = 0

====
